---------------------------- MODULE Spec2Model ----------------------------
(***************************************************************************)
(* A model of gifmake: ImageIO (name/directory setters, list_images,      *)
(* order_images, _get_fps, read_images, process_images, create_gif,       *)
(* optimize_gifsicle), SkimageProcessor, util.check_gifsicle_installation *)
(* and the cli entry point.                                                *)
(*                                                                         *)
(* Strings are sequences of one-character strings, so that the path and   *)
(* regular-expression operations of the code are computed rather than     *)
(* assumed.                                                                *)
(***************************************************************************)
EXTENDS Integers, Sequences, FiniteSets, TLC

VARIABLES
    pc,          \* position of the caller / of cli
    args,        \* the arguments of the call or of the command line
    env,         \* what the run finds outside: the directory listing, gifsicle, faults
    io,          \* the ImageIO object (None before construction)
    result,      \* what the last call returned or raised
    image_list,  \* cli's local image_list
    writer,      \* the imageio writer opened by create_gif
    out_file,    \* the file at io.file_path
    log          \* observable events: stages run, warnings, processes launched

vars == <<pc, args, env, io, result, image_list, writer, out_file, log>>

\* An optional argument is None or Some(value); an absent object, result or
\* writer is the record Nothing.
None == <<>>
Some(x) == <<x>>
Nothing == [kind |-> "None"]

-----------------------------------------------------------------------------
(* Characters and strings *)

\* The characters used, in code-point order ('.' < '/' < digits < '_' < letters).
CharOrder ==
    <<".", "/", "0", "1", "2", "3", "4", "5", "6", "7", "8", "9", "_",
      "a", "b", "d", "e", "f", "g", "h", "i", "j", "l", "n", "o", "p", "t", "x">>

Code(c) == CHOOSE i \in 1..Len(CharOrder) : CharOrder[i] = c

Digits == {"0", "1", "2", "3", "4", "5", "6", "7", "8", "9"}

IsDigit(c) == c \in Digits

DigitValue(c) == Code(c) - Code("0")

\* Python's str comparison s < t: by code point, a proper prefix is smaller.
RECURSIVE StrLess(_, _)
StrLess(s, t) ==
    IF t = <<>> THEN FALSE
    ELSE IF s = <<>> THEN TRUE
    ELSE IF Head(s) # Head(t) THEN Code(Head(s)) < Code(Head(t))
    ELSE StrLess(Tail(s), Tail(t))

\* s[i:] and s[:i] with Python's 0-based index i.
Drop(s, i) == SubSeq(s, i + 1, Len(s))
Take(s, i) == SubSeq(s, 1, i)

\* str.endswith
EndsWith(s, suffix) ==
    /\ Len(suffix) <= Len(s)
    /\ Drop(s, Len(s) - Len(suffix)) = suffix

\* The elements of a sequence.
Range(s) == {s[i] : i \in 1..Len(s)}

\* str.rfind of a character: the last 0-based index of c in s, or -1.
RFind(s, c) ==
    LET hits == {i \in 1..Len(s) : s[i] = c}
    IN  IF hits = {} THEN -1
        ELSE (CHOOSE i \in hits : \A j \in hits : j <= i) - 1

-----------------------------------------------------------------------------
(* re.findall('[0-9]+', image) and int() *)

\* The length of the maximal run of digits at the front of s.
RECURSIVE RunLen(_)
RunLen(s) ==
    IF s = <<>> \/ ~IsDigit(Head(s)) THEN 0 ELSE 1 + RunLen(Tail(s))

\* re.findall('[0-9]+', s): the maximal digit runs of s, left to right.
RECURSIVE FindAllDigits(_)
FindAllDigits(s) ==
    IF s = <<>> THEN <<>>
    ELSE IF IsDigit(Head(s))
         THEN <<Take(s, RunLen(s))>> \o FindAllDigits(Drop(s, RunLen(s)))
         ELSE FindAllDigits(Tail(s))

\* int(digits) for a non-empty string of decimal digits.
RECURSIVE IntOf(_)
IntOf(ds) ==
    IF ds = <<>> THEN 0
    ELSE IntOf(Take(ds, Len(ds) - 1)) * 10 + DigitValue(ds[Len(ds)])

-----------------------------------------------------------------------------
(* ImageIO.order_images *)

\* Python's tuple comparison a < b for (int, str) pairs.
TupleLessLex(a, b) == StrLess(a[2], b[2])

TupleLess(a, b) ==
    \/ a[1] < b[1]
    \/ a[1] = b[1] /\ StrLess(a[2], b[2])

\* sorted(): a stable sort by TupleLess, here by insertion.
RECURSIVE InsertSorted(_, _)
InsertSorted(x, s) ==
    IF s = <<>> THEN <<x>>
    ELSE IF TupleLess(x, Head(s)) THEN <<x>> \o s
    ELSE <<Head(s)>> \o InsertSorted(x, Tail(s))

RECURSIVE Sorted(_)
Sorted(s) ==
    IF s = <<>> THEN <<>>
    ELSE InsertSorted(s[Len(s)], Sorted(Take(s, Len(s) - 1)))

Raised(kind, what) == [kind |-> kind, value |-> what]
Returned(v) == [kind |-> "ok", value |-> v]

\* The loop of order_images over image_list[k..], with the pairs built so far.
\* len(matches) > 1 raises ValueError naming the image; matches[0] on an
\* empty match list raises IndexError.
RECURSIVE OrderLoop(_, _)
OrderLoop(rest, ordered_image_list) ==
    IF rest = <<>> THEN Returned(ordered_image_list)
    ELSE LET image == Head(rest)
             matches == FindAllDigits(image)
         IN  IF Len(matches) > 1 THEN Raised("ValueError", <<"ambiguous", image>>)
             ELSE IF Len(matches) = 0 THEN Raised("IndexError", <<"matches[0]", image>>)
             ELSE OrderLoop(Tail(rest),
                            Append(ordered_image_list, <<IntOf(matches[1]), image>>))

order_images(list) ==
    LET built == OrderLoop(list, <<>>)
    IN  IF built.kind # "ok" THEN built
        ELSE LET s == Sorted(built.value)
             IN  Returned([i \in 1..Len(s) |-> s[i][2]])

-----------------------------------------------------------------------------
(* os.path (posixpath) as the code uses it *)

\* os.path.splitext(p): <<root, ext>>. The extension starts at the last dot of
\* the last component, unless only dots precede it in that component.
Splitext(p) ==
    LET sepIndex == RFind(p, "/")
        dotIndex == RFind(p, ".")
    IN  IF /\ dotIndex > sepIndex
           /\ \E k \in (sepIndex + 1)..(dotIndex - 1) : p[k + 1] # "."
        THEN <<Take(p, dotIndex), Drop(p, dotIndex)>>
        ELSE <<p, <<>>>>

\* str.rstrip('/')
RECURSIVE RStripSep(_)
RStripSep(p) ==
    IF p # <<>> /\ p[Len(p)] = "/" THEN RStripSep(Take(p, Len(p) - 1)) ELSE p

\* os.path.split(p): <<head, tail>>, tail being what follows the last slash.
Split(p) ==
    LET i == RFind(p, "/") + 1
        head == Take(p, i)
        tail == Drop(p, i)
    IN  <<IF head # <<>> /\ RStripSep(head) # <<>> THEN RStripSep(head) ELSE head,
          tail>>

\* os.path.join(a, b)
Join(a, b) ==
    IF b # <<>> /\ Head(b) = "/" THEN b
    ELSE IF a = <<>> \/ a[Len(a)] = "/" THEN a \o b
    ELSE a \o <<"/">> \o b

-----------------------------------------------------------------------------
(* ImageIO: construction, the name and directory setters, file_path *)

\* The directories that exist: /d, /e2, /a.b, /f.gif and, relative to the
\* working directory, d.
ExistingDirs ==
    { <<"/", "d">>, <<"/", "e", "2">>, <<"/", "a", ".", "b">>,
      <<"/", "f", ".", "g", "i", "f">>, <<"d">> }

\* os.path.isdir: a path names a directory with or without trailing slashes.
IsDir(p) == RStripSep(p) \in ExistingDirs

\* The name setter without its endswith test: '.gif' is always appended.
NameSetterAlwaysAppends(directory, name) ==
    LET n == IF name = None THEN Split(directory)[2] ELSE name[1]
        ext == Splitext(n)[2]
    IN  IF ext # <<>> /\ ext # <<".", "g", "i", "f">>
        THEN Raised("ValueError", <<"is invalid", ext>>)
        ELSE Returned(n \o <<".", "g", "i", "f">>)

\* ImageIO.name's setter, given self.directory: the name stored, or the error.
NameSetter(directory, name) ==
    LET n == IF name = None THEN Split(directory)[2] ELSE name[1]
        ext == Splitext(n)[2]
    IN  IF ext # <<>> /\ ext # <<".", "g", "i", "f">>
        THEN Raised("ValueError", <<"is invalid", ext>>)
        ELSE IF ~EndsWith(n, <<".", "g", "i", "f">>)
             THEN Returned(n \o <<".", "g", "i", "f">>)
             ELSE Returned(n)

\* ImageIO.directory's setter.
DirectorySetter(directory) ==
    IF ~IsDir(directory)
    THEN Raised("ValueError", <<"is not a valid directory", directory>>)
    ELSE Returned(directory)

\* ImageIO.__init__: the object, or the error of the first setter that raises.
ImageIOInit(directory, name, duration, fps) ==
    LET d == DirectorySetter(directory)
        n == NameSetter(directory, name)
    IN  IF d.kind # "ok" THEN d
        ELSE IF n.kind # "ok" THEN n
        ELSE Returned([_directory |-> d.value, _name |-> n.value,
                       duration |-> duration, fps |-> fps, _images |-> <<>>])

\* ImageIO.file_path
file_path(self) == Join(self._directory, self._name)

-----------------------------------------------------------------------------
(* ImageIO.list_images *)

VALID_EXTENSIONS == { <<".", "p", "n", "g">>, <<".", "j", "p", "g">>,
                      <<".", "j", "p", "e", "g">> }

\* self.list_images(), os.listdir(self.directory) having returned listing.
list_images(self, listing) ==
    LET joined == [i \in 1..Len(listing) |-> Join(self._directory, listing[i])]
        invalid_images == SelectSeq(joined, LAMBDA x : Splitext(x)[2] \notin VALID_EXTENSIONS)
        accepted == SelectSeq(joined, LAMBDA x : x \notin {invalid_images[i] : i \in 1..Len(invalid_images)})
    IN  IF accepted = <<>>
        THEN Raised("ValueError", <<"No images found in directory", self._directory>>)
        ELSE order_images(accepted)

-----------------------------------------------------------------------------
(* ImageIO._get_fps *)

\* Python's truth value of an optional integer: None and 0 are false.
Truthy(opt) == opt # None /\ opt[1] # 0

\* round(n / d) for n >= 0 and d > 0: to the nearest integer, a tie to the
\* even one.
Round(n, d) ==
    LET q == n \div d
        r == n % d
    IN  IF 2 * r < d THEN q
        ELSE IF 2 * r > d THEN q + 1
        ELSE IF q % 2 = 0 THEN q ELSE q + 1

DEFAULT_FPS == 30

\* self._get_fps(images)
get_fps(self, images) ==
    IF Truthy(self.fps) THEN self.fps[1]
    ELSE IF Truthy(self.duration) THEN Round(Len(images), self.duration[1])
    ELSE DEFAULT_FPS

-----------------------------------------------------------------------------
(* ImageIO.read_images, SkimageProcessor and ImageProcessor.process_images *)

\* imageio.imread(image_path): the array read, known here by the file it came
\* from and its shape.
Imread(image_path, shape) == [src |-> image_path, shape |-> shape]

read_images_reversed(list, shape) ==
    [i \in 1..Len(list) |-> Imread(list[Len(list) + 1 - i], shape)]

\* The list read_images stores in self._images when every imread succeeds.
read_images(list, shape) ==
    [i \in 1..Len(list) |-> Imread(list[i], shape)]

SeqMax(t) == CHOOSE m \in Range(t) : \A x \in Range(t) : x <= m

\* SkimageProcessor.downsize: x, y, _ = img.shape needs three dimensions.
downsize(max_size, img) ==
    IF Truthy(max_size) /\ SeqMax(img.shape) > max_size[1]
    THEN IF Len(img.shape) # 3
         THEN Raised("ValueError", <<"unpack", img.src>>)
         ELSE Returned([img EXCEPT !.shape =
                  <<Round(img.shape[1] * max_size[1], SeqMax(img.shape)),
                    Round(img.shape[2] * max_size[1], SeqMax(img.shape)),
                    img.shape[3]>>])
    ELSE Returned(img)

\* SkimageProcessor.png_to_jpg: _, _, channels = img.shape
png_to_jpg(img) ==
    IF Len(img.shape) # 3 THEN Raised("ValueError", <<"unpack", img.src>>)
    ELSE IF img.shape[3] = 4
         THEN Returned([img EXCEPT !.shape = <<img.shape[1], img.shape[2], 3>>])
         ELSE Returned(img)

\* SkimageProcessor.process
process(max_size, img) ==
    LET d == downsize(max_size, img)
    IN  IF d.kind # "ok" THEN d ELSE png_to_jpg(d.value)

\* ImageProcessor.process_images: the processed list, or the first error.
process_images(max_size, images) ==
    LET bad == {i \in 1..Len(images) : process(max_size, images[i]).kind # "ok"}
    IN  IF bad # {}
        THEN process(max_size, images[CHOOSE i \in bad : \A j \in bad : i <= j])
        ELSE Returned([i \in 1..Len(images) |-> process(max_size, images[i]).value])

-----------------------------------------------------------------------------
(* util.gifsicle_installed and util.check_gifsicle_installation *)

\* gifsicle_installed(), the shell having returned returncode for 'gifsicle':
\* Some(FALSE), Some(TRUE), or None after printing the unknown code.
gifsicle_installed(returncode) ==
    IF returncode = 127 THEN Some(FALSE)
    ELSE IF returncode = 1 THEN Some(TRUE)
    ELSE None

\* check_gifsicle_installation raising instead of warning.
check_gifsicle_installation_strict(returncode) ==
    LET installed == gifsicle_installed(returncode)
    IN  [installed |-> installed,
         warned |-> FALSE,
         raised |-> installed = None \/ installed = Some(FALSE)]

\* check_gifsicle_installation(): what it returns, whether it warned, whether
\* it raised.
check_gifsicle_installation(returncode) ==
    LET installed == gifsicle_installed(returncode)
    IN  [installed |-> installed,
         warned |-> installed = None \/ installed = Some(FALSE),
         raised |-> FALSE]

\* os.path.realpath of an existing path without symbolic links or dots, the
\* working directory being /.
Realpath(p) ==
    LET abs == IF p # <<>> /\ Head(p) = "/" THEN p ELSE <<"/">> \o p
    IN  IF RStripSep(abs) = <<>> THEN <<"/">> ELSE RStripSep(abs)

-----------------------------------------------------------------------------
(* String constants *)

Png == <<".", "p", "n", "g">>
Jpg == <<".", "j", "p", "g">>
Jpeg == <<".", "j", "p", "e", "g">>
Txt == <<".", "t", "x", "t">>
Gif == <<".", "g", "i", "f">>

\* The longest list handed to order_images.
MaxLen == 3

\* 1.png 10.png 2.png 100.png (the test's sample_files), 01.png (the same
\* integer as 1.png), x2.png, and two names the numbering of which is not
\* unique: a.png (no digits) and 0_1.png (two runs).
OrderNames ==
    { <<"1">> \o Png, <<"1", "0">> \o Png, <<"2">> \o Png, <<"1", "0", "0">> \o Png,
      <<"0", "1">> \o Png, <<"x", "2">> \o Png,
      <<"a">> \o Png, <<"0", "_", "1">> \o Png }

SeqsUpTo(S, n) == UNION {[1..k -> S] : k \in 0..n}

NoFile == [state |-> "absent", frames |-> <<>>, optimized |-> FALSE]

Quiet ==
    /\ env = Nothing
    /\ io = Nothing
    /\ image_list = <<>>
    /\ writer = Nothing
    /\ out_file = NoFile
    /\ log = <<>>

-----------------------------------------------------------------------------
(* A caller of the static method ImageIO.order_images *)

InitOrder ==
    /\ pc = "order_call"
    /\ args \in {[image_list |-> l] : l \in SeqsUpTo(OrderNames, MaxLen)}
    /\ result = Nothing
    /\ Quiet

CallOrderImages ==
    /\ pc = "order_call"
    /\ result' = order_images(args.image_list)
    /\ pc' = "order_returned"
    /\ UNCHANGED <<args, env, io, image_list, writer, out_file, log>>

NextOrder == CallOrderImages

SpecOrder == InitOrder /\ [][NextOrder]_vars

-----------------------------------------------------------------------------
(* Claims about order_images *)

RunCount(name) == Len(FindAllDigits(name))
OneRun(name) == RunCount(name) = 1
IntKey(name) == IntOf(FindAllDigits(name)[1])

Count(x, s) == Cardinality({i \in 1..Len(s) : s[i] = x})
IsPermutationOf(s, t) ==
    /\ Len(s) = Len(t)
    /\ \A x \in Range(s) \cup Range(t) : Count(x, s) = Count(x, t)

Perms(n) == {f \in [1..n -> 1..n] : \A i, j \in 1..n : f[i] = f[j] => i = j}
Rearranged(s, f) == [i \in 1..Len(s) |-> s[f[i]]]

NumericallySorted(s) ==
    \A i, j \in 1..Len(s) :
        i < j => \/ IntKey(s[i]) < IntKey(s[j])
                 \/ IntKey(s[i]) = IntKey(s[j]) /\ ~StrLess(s[j], s[i])

\* C1: for a list in which every name has exactly one digit run, order_images
\* returns a permutation of the list, ascending by the integer of the run,
\* equal integers in string order, whatever the order of the input list.
C1_OrderedPermutation ==
    (pc = "order_returned" /\ \A x \in Range(args.image_list) : OneRun(x)) =>
        /\ result.kind = "ok"
        /\ IsPermutationOf(result.value, args.image_list)
        /\ NumericallySorted(result.value)
        /\ \A f \in Perms(Len(args.image_list)) :
              order_images(Rearranged(args.image_list, f)) = result

\* 10.png was given before 2.png and before 01.png, 1.png: numeric order
\* differs from the input order and from string order, and two names tie.
C1_Witness ==
    /\ pc = "order_returned"
    /\ args.image_list = << <<"1", "0">> \o Png, <<"2">> \o Png, <<"1">> \o Png >>
    /\ result = Returned(<< <<"1">> \o Png, <<"2">> \o Png, <<"1", "0">> \o Png >>)

\* C2: a list holding a name with no digit run or with several makes
\* order_images raise the ambiguous-filename ValueError naming an offending
\* name, in both cases, and return no list.
C2_AmbiguousRaisesValueError ==
    (pc = "order_returned" /\ \E x \in Range(args.image_list) : ~OneRun(x)) =>
        /\ result.kind = "ValueError"
        /\ result.value[1] = "ambiguous"
        /\ result.value[2] \in Range(args.image_list)
        /\ ~OneRun(result.value[2])

-----------------------------------------------------------------------------
(* A caller constructing ImageIO(directory, name) and setting its name again *)

\* The longest explicit name.
MaxNameLen == 5

NameChars == {"a", ".", "g", "i", "f"}

\* /d, /d/, /a.b, /f.gif, d (all existing) and /x (missing).
NameDirs ==
    { <<"/", "d">>, <<"/", "d", "/">>, <<"/", "a", ".", "b">>,
      <<"/", "f", ".", "g", "i", "f">>, <<"d">>, <<"/", "x">> }

InitName ==
    /\ pc = "new"
    /\ args \in {[directory |-> d, name |-> n, duration |-> None, fps |-> None] :
                    d \in NameDirs,
                    n \in {None} \cup {Some(x) : x \in SeqsUpTo(NameChars, MaxNameLen)}}
    /\ result = Nothing
    /\ Quiet

\* io = ImageIO(directory=..., name=...)
Construct ==
    /\ pc = "new"
    /\ LET r == ImageIOInit(args.directory, args.name, args.duration, args.fps)
       IN  /\ result' = r
           /\ io' = IF r.kind = "ok" THEN r.value ELSE Nothing
           /\ pc' = IF r.kind = "ok" THEN "constructed" ELSE "raised"
    /\ UNCHANGED <<args, env, image_list, writer, out_file, log>>

\* io.name = io.name
SetNameAgain ==
    /\ pc = "constructed"
    /\ LET r == NameSetter(io._directory, Some(io._name))
       IN  /\ result' = r
           /\ io' = IF r.kind = "ok" THEN [io EXCEPT !._name = r.value] ELSE io
    /\ pc' = "name_set"
    /\ UNCHANGED <<args, env, image_list, writer, out_file, log>>

NextName == Construct \/ SetNameAgain

SpecName == InitName /\ [][NextName]_vars

-----------------------------------------------------------------------------
(* Claims about the output name *)

\* A name (without slashes) has an extension when a dot follows a character
\* that is not a dot; the extension runs from the last dot.
HasExtension(n) == \E i \in 1..Len(n) : n[i] = "." /\ \E k \in 1..(i - 1) : n[k] # "."
ExtensionOf(n) == Drop(n, RFind(n, "."))

ExplicitName == args.name # None /\ IsDir(args.directory)
GivenName == args.name[1]

\* C6: an explicit name ending in '.gif' is stored unchanged, one without
\* extension is stored with '.gif' appended once (so n and n.gif store the
\* same name), setting the stored name again leaves it as it is, and a name
\* with another extension raises ValueError and stores nothing.
C6_GifSuffixIdempotent ==
    /\ (pc \in {"constructed", "name_set"} /\ ExplicitName) =>
          /\ result.kind = "ok"
          /\ EndsWith(GivenName, Gif) => io._name = GivenName
          /\ ~EndsWith(GivenName, Gif) =>
                /\ ~HasExtension(GivenName)
                /\ io._name = GivenName \o Gif
                /\ NameSetter(args.directory, Some(GivenName \o Gif)) = Returned(io._name)
    /\ (pc = "raised" /\ ExplicitName) =>
          /\ HasExtension(GivenName)
          /\ ExtensionOf(GivenName) # Gif
          /\ result = Raised("ValueError", <<"is invalid", ExtensionOf(GivenName)>>)
          /\ io = Nothing

\* 'a.gif' went through the setter twice and is still 'a.gif'.
C6_Witness ==
    /\ pc = "name_set"
    /\ args.name = Some(<<"a">> \o Gif)
    /\ io._name = <<"a">> \o Gif

\* The last component of a directory path, trailing slashes aside.
LeafOf(directory) == Split(RStripSep(directory))[2]

\* C7: for every existing directory, ImageIO(directory, name=None) succeeds
\* and names the output after the directory's leaf: name = leaf.gif and
\* file_path = directory/leaf.gif.
C7_DefaultNameIsLeaf ==
    (pc \in {"constructed", "raised"} /\ args.name = None /\ IsDir(args.directory)) =>
        /\ pc = "constructed"
        /\ io._name = LeafOf(args.directory) \o Gif
        /\ file_path(io) = Join(args.directory, LeafOf(args.directory) \o Gif)

-----------------------------------------------------------------------------
(* A caller constructing ImageIO(directory) and calling list_images() *)

\* The most entries a listed directory holds.
MaxFiles == 3

\* 1.png 10.jpg 2.jpeg (accepted), 7.gif b.txt (other extensions), a.png
\* (accepted, no digits).
ListNames ==
    { <<"1">> \o Png, <<"1", "0">> \o Jpg, <<"2">> \o Jpeg,
      <<"7">> \o Gif, <<"b">> \o Txt, <<"a">> \o Png }

\* os.listdir returns the entries in arbitrary order: every arrangement of
\* every set of at most n names.
Listings(names, n) ==
    {l \in SeqsUpTo(names, n) : \A i, j \in 1..Len(l) : l[i] = l[j] => i = j}

\* /d, /d/, d, /e2, /a.b, /f.gif
ListDirs ==
    { <<"/", "d">>, <<"/", "d", "/">>, <<"d">>, <<"/", "e", "2">>,
      <<"/", "a", ".", "b">>, <<"/", "f", ".", "g", "i", "f">> }

InitList ==
    /\ pc = "new"
    /\ args \in {[directory |-> d, name |-> None, duration |-> None, fps |-> None] :
                    d \in ListDirs}
    /\ env \in {[listing |-> l] : l \in Listings(ListNames, MaxFiles)}
    /\ result = Nothing
    /\ io = Nothing
    /\ image_list = <<>>
    /\ writer = Nothing
    /\ out_file = NoFile
    /\ log = <<>>

\* io.list_images()
CallListImages ==
    /\ pc = "constructed"
    /\ result' = list_images(io, env.listing)
    /\ pc' = "listed"
    /\ UNCHANGED <<args, env, io, image_list, writer, out_file, log>>

NextList == Construct \/ CallListImages

SpecList == InitList /\ [][NextList]_vars

\* The entries of the listing with an accepted extension.
AcceptedEntries == {f \in Range(env.listing) : \E e \in VALID_EXTENSIONS : EndsWith(f, e)}

BaseName(path) == Drop(path, RFind(path, "/") + 1)
BaseKey(path) == IntKey(BaseName(path))

\* C3: for an existing directory whose accepted entries each have exactly one
\* digit run in their base name, list_images returns exactly the accepted
\* entries, joined to the directory, ascending by the integer in the base
\* name, whatever the directory's own path is.
C3_ListedByBaseNameNumber ==
    (/\ pc = "listed"
     /\ AcceptedEntries # {}
     /\ \A f \in AcceptedEntries : OneRun(f)) =>
        /\ result.kind = "ok"
        /\ Range(result.value) = {Join(args.directory, f) : f \in AcceptedEntries}
        /\ Len(result.value) = Cardinality(AcceptedEntries)
        /\ \A i, j \in 1..Len(result.value) :
              i < j => BaseKey(result.value[i]) < BaseKey(result.value[j])

-----------------------------------------------------------------------------
(* A caller constructing ImageIO(directory, duration, fps) and calling _get_fps *)

MaxFps == 3
MaxDuration == 5
MaxFrames == 10

OptionalUpTo(n) == {None} \cup {Some(k) : k \in 0..n}

InitFps ==
    /\ pc = "new"
    /\ args \in {[directory |-> <<"/", "d">>, name |-> None, duration |-> d, fps |-> f] :
                    d \in OptionalUpTo(MaxDuration), f \in OptionalUpTo(MaxFps)}
    /\ env \in {[frame_count |-> n] : n \in 0..MaxFrames}
    /\ result = Nothing
    /\ io = Nothing
    /\ image_list = <<>>
    /\ writer = Nothing
    /\ out_file = NoFile
    /\ log = <<>>

\* io._get_fps(images) with a list of env.frame_count images
CallGetFps ==
    /\ pc = "constructed"
    /\ result' = Returned(get_fps(io, [i \in 1..env.frame_count |-> i]))
    /\ pc' = "fps_returned"
    /\ UNCHANGED <<args, env, io, image_list, writer, out_file, log>>

NextFps == Construct \/ CallGetFps

SpecFps == InitFps /\ [][NextFps]_vars

IsPositive(opt) == opt # None /\ opt[1] > 0

\* C4: on its valid domain (at least one frame, fps unset or positive,
\* duration unset or positive, not both set) _get_fps returns fps when only
\* fps is set, 30 when neither is set, and max(1, round(frames / duration))
\* when only duration is set: always an integer >= 1.
C4_FpsAtLeastOne ==
    (/\ pc = "fps_returned"
     /\ env.frame_count >= 1
     /\ args.fps = None \/ IsPositive(args.fps)
     /\ args.duration = None \/ IsPositive(args.duration)
     /\ args.fps = None \/ args.duration = None) =>
        /\ result.kind = "ok"
        /\ result.value \in Nat
        /\ result.value >= 1
        /\ args.fps # None => result.value = args.fps[1]
        /\ (args.fps = None /\ args.duration = None) => result.value = 30
        /\ (args.fps = None /\ args.duration # None) =>
              \E r \in 0..env.frame_count :
                  /\ 2 * env.frame_count - 2 * r * args.duration[1] <= args.duration[1]
                  /\ 2 * r * args.duration[1] - 2 * env.frame_count <= args.duration[1]
                  /\ result.value = IF r < 1 THEN 1 ELSE r

\* C5: with both fps and duration given and non-zero, resolving the frame
\* rate of an ImageIO constructed with both raises the conflicting-timing
\* error and yields no fps value.
C5_BothSetRaises ==
    (pc = "fps_returned" /\ Truthy(args.fps) /\ Truthy(args.duration)) =>
        result.kind = "ValueError"

-----------------------------------------------------------------------------
(* cli: one run of the command line *)

\* The most entries of the directory a run converts.
MaxCliFiles == 3

\* 10.png 2.png 1.jpg (accepted) and b.txt
CliNames == { <<"1", "0">> \o Png, <<"2">> \o Png, <<"1">> \o Jpg, <<"b">> \o Txt }

\* /d/ (resolved to /d), /e2 and /a.b: click admits existing paths only.
CliDirs == { <<"/", "d", "/">>, <<"/", "e", "2">>, <<"/", "a", ".", "b">> }

\* --name: absent, or 'a'
CliNameArgs == {None, Some(<<"a">>)}

\* --fps and --d: absent, or 2
CliTimings == {None, Some(2)}

\* --max-size: absent, or 2
CliMaxSizes == {None, Some(2)}

\* What 'gifsicle' returns to the shell: 127 (not found), 1 (found), 0.
ReturnCodes == {127, 1, 0}

\* The shape of the images of the directory: RGB, RGBA, or two-dimensional.
Shapes == { <<4, 2, 3>>, <<2, 4, 4>>, <<3, 3>> }

NoLog == [stages |-> <<>>, probed |-> FALSE, warned |-> FALSE, invoked |-> FALSE,
          failed_at |-> "nowhere"]

Init ==
    /\ pc = "cli"
    /\ args \in {[directory |-> d, name |-> n, max_size |-> m, fps |-> f,
                  duration |-> t, optimize |-> o] :
                    d \in CliDirs, n \in CliNameArgs, m \in CliMaxSizes,
                    f \in CliTimings, t \in CliTimings, o \in BOOLEAN}
    /\ env \in {[listing |-> l, returncode |-> r, shape |-> sh] :
                    l \in Listings(CliNames, MaxCliFiles), r \in ReturnCodes, sh \in Shapes}
    /\ io = Nothing
    /\ result = Nothing
    /\ image_list = <<>>
    /\ writer = Nothing
    /\ out_file = NoFile
    /\ log = NoLog

Fail(error) ==
    /\ result' = error
    /\ log' = [log EXCEPT !.failed_at = pc]
    /\ pc' = "failed"

Stage(name) == [log EXCEPT !.stages = Append(@, name)]

\* lines 243-247: realpath, the fps/duration check, the optimize test
CliStart ==
    /\ pc = "cli"
    /\ IF Truthy(args.duration) /\ Truthy(args.fps)
       THEN Fail(Raised("ValueError", <<"Cannot specify both a duration and an FPS">>))
       ELSE /\ pc' = IF args.optimize THEN "check_gifsicle" ELSE "construct"
            /\ UNCHANGED <<result, log>>
    /\ UNCHANGED <<args, env, io, image_list, writer, out_file>>

\* line 248: check_gifsicle_installation()
CliCheckGifsicle ==
    /\ pc = "check_gifsicle"
    /\ LET c == check_gifsicle_installation(env.returncode)
       IN  IF c.raised
           THEN /\ result' = Raised("Error", <<"gifsicle">>)
                /\ log' = [log EXCEPT !.probed = TRUE, !.failed_at = pc]
                /\ pc' = "failed"
           ELSE /\ log' = [log EXCEPT !.probed = TRUE, !.warned = c.warned]
                /\ pc' = "construct"
                /\ UNCHANGED result
    /\ UNCHANGED <<args, env, io, image_list, writer, out_file>>

\* line 251: io = ImageIO(directory=full_dir_path, name, duration, fps)
CliConstruct ==
    /\ pc = "construct"
    /\ LET r == ImageIOInit(Realpath(args.directory), args.name, args.duration, args.fps)
       IN  IF r.kind = "ok"
           THEN /\ io' = r.value
                /\ pc' = "list_images"
                /\ UNCHANGED <<result, log>>
           ELSE /\ Fail(r)
                /\ UNCHANGED io
    /\ UNCHANGED <<args, env, image_list, writer, out_file>>

\* line 252: image_list = io.list_images(verbose)
CliListImages ==
    /\ pc = "list_images"
    /\ LET r == list_images(io, env.listing)
       IN  IF r.kind = "ok"
           THEN /\ image_list' = r.value
                /\ log' = Stage("Scan")
                /\ pc' = "read_images"
                /\ UNCHANGED result
           ELSE /\ result' = r
                /\ log' = [Stage("Scan") EXCEPT !.failed_at = pc]
                /\ pc' = "failed"
                /\ UNCHANGED image_list
    /\ UNCHANGED <<args, env, io, writer, out_file>>

\* line 253: io.read_images(image_list), every imread succeeding
CliReadImages ==
    /\ pc = "read_images"
    /\ io' = [io EXCEPT !._images = read_images(image_list, env.shape)]
    /\ log' = Stage("Decode")
    /\ pc' = "process_images"
    /\ UNCHANGED <<args, env, result, image_list, writer, out_file>>

\* line 253: io.read_images(image_list), an imread raising
CliReadImagesFails ==
    /\ pc = "read_images"
    /\ result' = Raised("DecodeError", <<"imread">>)
    /\ log' = [Stage("Decode") EXCEPT !.failed_at = pc]
    /\ pc' = "failed"
    /\ UNCHANGED <<args, env, io, image_list, writer, out_file>>

\* lines 256-257: io.process_images(SkimageProcessor(max_size))
CliProcessImages ==
    /\ pc = "process_images"
    /\ LET r == process_images(args.max_size, io._images)
       IN  IF r.kind = "ok"
           THEN /\ io' = [io EXCEPT !._images = r.value]
                /\ log' = Stage("Transform")
                /\ pc' = "create_gif"
                /\ UNCHANGED result
           ELSE /\ result' = r
                /\ log' = [Stage("Transform") EXCEPT !.failed_at = pc]
                /\ pc' = "failed"
                /\ UNCHANGED io
    /\ UNCHANGED <<args, env, image_list, writer, out_file>>

\* create_gif, line 155: fps = self._get_fps(self._images)
CreateGifGetFps ==
    /\ pc = "create_gif"
    /\ writer' = [kind |-> "unopened", fps |-> get_fps(io, io._images), frames |-> <<>>]
    /\ log' = Stage("ResolveFrameRate")
    /\ pc' = "get_writer"
    /\ UNCHANGED <<args, env, io, result, image_list, out_file>>

\* create_gif, line 157: imageio.get_writer(self.file_path, mode='I', fps=fps)
CreateGifGetWriter ==
    /\ pc = "get_writer"
    /\ writer' = [writer EXCEPT !.kind = "open"]
    /\ out_file' = [state |-> "partial", frames |-> <<>>, optimized |-> FALSE]
    /\ log' = Stage("Encode")
    /\ pc' = "append_data"
    /\ UNCHANGED <<args, env, io, result, image_list>>

\* create_gif, line 157: get_writer raising, no file opened
CreateGifGetWriterFails ==
    /\ pc = "get_writer"
    /\ result' = Raised("EncodeError", <<"get_writer">>)
    /\ log' = [Stage("Encode") EXCEPT !.failed_at = pc]
    /\ pc' = "failed"
    /\ UNCHANGED <<args, env, io, image_list, writer, out_file>>

\* create_gif, lines 158-159: writer.append_data(image) for the next image
CreateGifAppendData ==
    /\ pc = "append_data"
    /\ Len(writer.frames) < Len(io._images)
    /\ writer' = [writer EXCEPT !.frames = Append(@, io._images[Len(@) + 1])]
    /\ out_file' = [out_file EXCEPT !.frames = Append(@, io._images[Len(@) + 1])]
    /\ UNCHANGED <<pc, args, env, io, result, image_list, log>>

\* create_gif, lines 157-159: append_data raising; leaving the with block
\* closes the writer, and nothing removes the file written so far.
CreateGifAppendDataFails ==
    /\ pc = "append_data"
    /\ Len(writer.frames) < Len(io._images)
    /\ writer' = [writer EXCEPT !.kind = "closed"]
    /\ out_file' = [out_file EXCEPT !.state = "truncated"]
    /\ result' = Raised("EncodeError", <<"append_data">>)
    /\ log' = [log EXCEPT !.failed_at = pc]
    /\ pc' = "failed"
    /\ UNCHANGED <<args, env, io, image_list>>

\* create_gif, lines 157-161: the loop is over, the writer is closed
CreateGifClose ==
    /\ pc = "append_data"
    /\ Len(writer.frames) = Len(io._images)
    /\ writer' = [writer EXCEPT !.kind = "closed"]
    /\ out_file' = [out_file EXCEPT !.state = "complete"]
    /\ pc' = "optimize"
    /\ UNCHANGED <<args, env, io, result, image_list, log>>

\* lines 261-262: if optimize: io.optimize_gifsicle(). The command is run
\* through the shell and its return code is not looked at: gifsicle rewrites
\* the file when it is there, and nothing happens when it is not.
CliOptimize ==
    /\ pc = "optimize"
    /\ \/ /\ args.optimize
          /\ log' = [log EXCEPT !.stages = @ \o <<"OptionalOptimize", "Done">>,
                                !.invoked = TRUE]
          /\ out_file' = [out_file EXCEPT !.optimized = (env.returncode = 1)]
       \/ /\ ~args.optimize
          /\ log' = [log EXCEPT !.stages = @ \o <<"OptionalOptimize", "Done">>]
          /\ UNCHANGED out_file
    /\ pc' = "done"
    /\ UNCHANGED <<args, env, io, result, image_list, writer>>

Next ==
    \/ CliStart
    \/ CliCheckGifsicle
    \/ CliConstruct
    \/ CliListImages
    \/ CliReadImages
    \/ CliReadImagesFails
    \/ CliProcessImages
    \/ CreateGifGetFps
    \/ CreateGifGetWriter
    \/ CreateGifGetWriterFails
    \/ CreateGifAppendData
    \/ CreateGifAppendDataFails
    \/ CreateGifClose
    \/ CliOptimize

Spec == Init /\ [][Next]_vars

-----------------------------------------------------------------------------
(* Claims about a run of cli *)

StageOrder ==
    <<"Scan", "Decode", "Transform", "ResolveFrameRate", "Encode",
      "OptionalOptimize", "Done">>

IsPrefix(s, t) == Len(s) <= Len(t) /\ s = SubSeq(t, 1, Len(s))

\* The frame the writer must receive for a listed path.
FrameOf(path) == process(args.max_size, Imread(path, env.shape)).value

\* C8: the stages of a run start in the order Scan, Decode, Transform,
\* ResolveFrameRate, Encode, OptionalOptimize, Done, none skipped and none
\* entered twice, and a run that ends in Done has handed the writer exactly
\* the processed image of each path list_images returned, in that order.
C8_StagesAndFramesInOrder ==
    /\ IsPrefix(log.stages, StageOrder)
    /\ pc = "done" =>
          /\ log.stages = StageOrder
          /\ list_images(io, env.listing).kind = "ok"
          /\ LET listed == list_images(io, env.listing).value
             IN  /\ writer.frames = [i \in 1..Len(listed) |-> FrameOf(listed[i])]
                 /\ out_file.frames = writer.frames

\* A run over 10.png, 2.png listed in that order ended with frame 2 first.
C8_Witness ==
    /\ pc = "done"
    /\ env.listing = << <<"1", "0">> \o Png, <<"b">> \o Txt, <<"2">> \o Png >>
    /\ Len(writer.frames) = 2
    /\ writer.frames[1].src = <<"/", "d", "/", "2">> \o Png
    /\ writer.frames[2].src = <<"/", "d", "/", "1", "0">> \o Png

\* C9: a run that failed leaves no output file behind, and a run that ended
\* in Done leaves the complete one.
C9_NoPartialOutput ==
    /\ pc = "failed" => out_file.state = "absent"
    /\ pc = "done" => out_file.state = "complete"

\* C10: the optimizer is probed and invoked only when optimize is set; a probe
\* that does not find gifsicle (or returns an unknown status) warns; no run
\* fails in the probe or in the optimize step; and a run that ends in Done
\* has written the whole output file.
C10_MissingOptimizerIsWarning ==
    /\ ~args.optimize => ~log.probed /\ ~log.warned /\ ~log.invoked
    /\ log.probed => (log.warned <=> env.returncode # 1)
    /\ log.failed_at \notin {"check_gifsicle", "optimize"}
    /\ pc = "failed" <=> log.failed_at # "nowhere"
    /\ pc = "done" =>
          /\ out_file.state = "complete"
          /\ log.stages = StageOrder
          /\ args.optimize => log.probed /\ log.invoked

\* gifsicle was not found, the run warned, and ended in Done with the file
\* written and not optimized.
C10_Witness ==
    /\ pc = "done"
    /\ args.optimize
    /\ env.returncode = 127
    /\ log.warned
    /\ log.invoked
    /\ out_file.state = "complete"
    /\ ~out_file.optimized
    /\ Len(out_file.frames) = 2

=============================================================================
